---- MODULE Spec2Model ----
(***************************************************************************)
(* Data-access layer of the AMS dashboard: the two-tier cache with TTL and *)
(* request de-duplication (src/api/amsCache.ts), the HTTP client with     *)
(* timeout, retry and 401 handling (amsClient.ts), the fetch functions of  *)
(* amsEndpoints.ts, the referential bootstrapper (amsBootstrap.ts) and the *)
(* dashboard loader (amsInit.ts).                                          *)
(*                                                                         *)
(* Time is Date.now() in milliseconds.  Cache keys are strings; they are   *)
(* modelled as sequences of characters so that String.startsWith is the    *)
(* prefix relation on sequences.  JavaScript's null is the value Null.     *)
(***************************************************************************)
EXTENDS Integers, Sequences, FiniteSets, TLC

\* ------------------------------------------------------------------------
\* Program constants (amsCache.ts, CACHE_TTL)
\* ------------------------------------------------------------------------
CACHE_TTL_DEFAULT == 300000
CACHE_TTL_SHORT == 60000
CACHE_TTL_NONE == 0

\* ------------------------------------------------------------------------
\* Bounds of the model
\* ------------------------------------------------------------------------
\* Number of clock advances of CACHE_TTL_SHORT each that a behaviour may take.
MaxTicks == 1
\* Number of operations deduplicatedFetch may start between two restarts.
MaxOps == 2
\* Number of deduplicatedFetch calls recorded between two restarts.
MaxCalls == 2
\* Number of set() calls the application makes directly.
MaxSets == 2
\* Largest maxRetries the client is configured with.
MaxRetries == 2
\* Number of bootstrap attempts started, of bootstrapReferentials() calls and
\* of resetBootstrap() calls in a behaviour.
MaxAttempts == 2
MaxBootCalls == 3
MaxResets == 1
\* Largest number of properties of a params object given to makeCacheKey.
MaxParams == 2
MaxLoads == 2

Null == "null"
Keys == {<<"a", "x">>, <<"b">>}
Prefixes == {<< >>, <<"a">>, <<"a", "x">>, <<"a", "y">>, <<"a", "x", "y">>, <<"b">>, <<"x">>}
Values == {"v1", "v2"}
Data == Values \cup {Null}
Ttls == {CACHE_TTL_NONE, CACHE_TTL_SHORT, CACHE_TTL_DEFAULT}

VARIABLES
  now,               \* Date.now()
  memoryCache,       \* Map<string, CacheEntry>
  storage,           \* localStorage items under STORAGE_PREFIX, by cache key
  inFlightRequests,  \* Map<string, Promise>: key -> id of the operation, 0 = none
  ops,               \* the operations started by deduplicatedFetch
  calls,             \* the deduplicatedFetch calls that were given a promise, and its outcome
  nSet,              \* history: the number of direct set() calls so far
  config,            \* amsClient: the current AmsClientConfig
  req,               \* amsClient: the request being made by fetchWithRetry
  referentialStore,  \* amsBootstrap: the ReferentialStore read by the accessors
  isBootstrapped,    \* amsBootstrap
  bootstrapPromise,  \* amsBootstrap: id of the attempt whose promise it holds, 0 = null
  attempts,          \* amsBootstrap: the async closures started at line 64
  bootCalls,         \* amsBootstrap: the calls of bootstrapReferentials()
  resets,            \* history: the number of resetBootstrap() calls so far
  epCall,            \* amsEndpoints: the call of a fetch function being served
  session,           \* localStorage items of utils/api.ts: the token and the settings
  keyCall,           \* amsCache: the last call of makeCacheKey and its result
  waitCall,          \* amsBootstrap: the call of waitForBootstrap() being followed
  emptyDashboard,    \* amsInit: the module's emptyDashboard object (its errors array)
  dash,              \* amsInit: the call of loadWpDashboard() being served
  invalidatedOps,    \* history: the operations whose key was invalidated while in flight
  wpCache,           \* amsCache: the keys of the dashboard requests that have a valid entry
  api                \* amsInit: isInitialized, and the last call of initAmsApi / resetApi

cacheVars == <<now, memoryCache, storage, inFlightRequests, ops, calls, nSet>>
clientVars == <<config, req>>
bootVars == <<referentialStore, isBootstrapped, bootstrapPromise, attempts, bootCalls, resets>>
endpointVars == <<epCall>>
sessionVars == <<session>>
keyVars == <<keyCall>>
waitVars == <<waitCall>>
dashVars == <<emptyDashboard, dash>>
staleVars == <<invalidatedOps>>
wpVars == <<wpCache>>
apiVars == <<api>>
vars == <<cacheVars, clientVars, bootVars, endpointVars, sessionVars, keyVars, waitVars, dashVars,
          staleVars, wpVars, apiVars>>

\* ------------------------------------------------------------------------
\* Cache entries.  present = FALSE is "no entry in the map".  wAt and wTtl
\* are history fields: the time and ttl of the set() that wrote the data,
\* carried along when an entry is copied from the durable tier.
\* ------------------------------------------------------------------------
NoEntry == [present |-> FALSE, data |-> Null, timestamp |-> 0, ttl |-> 0, wAt |-> 0, wTtl |-> 0]

startsWith(s, p) == Len(p) <= Len(s) /\ SubSeq(s, 1, Len(p)) = p

isValid(entry, t) ==
  IF ~entry.present THEN FALSE
  ELSE IF entry.ttl = 0 THEN FALSE
  ELSE t - entry.timestamp < entry.ttl

\* Result: res = the returned data (Null = miss), ent = the entry served,
\* mem = the memory cache afterwards.
getFromMemory(mem, key, t) ==
  LET entry == mem[key] IN
  IF entry.present /\ isValid(entry, t)
    THEN [res |-> entry.data, ent |-> entry, mem |-> mem]
    ELSE IF entry.present
      THEN [res |-> Null, ent |-> NoEntry, mem |-> [mem EXCEPT ![key] = NoEntry]]
      ELSE [res |-> Null, ent |-> NoEntry, mem |-> mem]

setInMemory(mem, key, data, ttl, t, wAt, wTtl) ==
  [mem EXCEPT ![key] = [present |-> TRUE, data |-> data, timestamp |-> t, ttl |-> ttl,
                        wAt |-> wAt, wTtl |-> wTtl]]

\* fails = localStorage.getItem or JSON.parse threw (storage unavailable,
\* stored text corrupted): the catch of lines 101-104 returns null.
getFromStorage(sto, key, t, fails) ==
  LET entry == sto[key] IN
  IF fails THEN [res |-> Null, ent |-> NoEntry, sto |-> sto]
  ELSE IF ~entry.present THEN [res |-> Null, ent |-> NoEntry, sto |-> sto]
  ELSE IF entry.ttl > 0 /\ t - entry.timestamp < entry.ttl
    THEN [res |-> entry.data, ent |-> entry, sto |-> sto]
    ELSE [res |-> Null, ent |-> NoEntry, sto |-> [sto EXCEPT ![key] = NoEntry]]

\* A variant in which a failed write removes the item.
setInStorageOrRemove(sto, key, data, ttl, t, fails) ==
  IF fails THEN [sto EXCEPT ![key] = NoEntry]
  ELSE [sto EXCEPT ![key] = [present |-> TRUE, data |-> data, timestamp |-> t, ttl |-> ttl,
                             wAt |-> t, wTtl |-> ttl]]

\* fails = JSON.stringify or localStorage.setItem threw (value not
\* serializable, quota, storage unavailable); the write is dropped.
setInStorage(sto, key, data, ttl, t, fails) ==
  IF fails THEN sto
  ELSE [sto EXCEPT ![key] = [present |-> TRUE, data |-> data, timestamp |-> t, ttl |-> ttl,
                             wAt |-> t, wTtl |-> ttl]]

get(mem, sto, key, t, fails) ==
  LET m == getFromMemory(mem, key, t) IN
  IF m.res # Null
    THEN [res |-> m.res, ent |-> m.ent, mem |-> m.mem, sto |-> sto]
    ELSE LET s == getFromStorage(sto, key, t, fails) IN
      IF s.res # Null
        THEN [res |-> s.res, ent |-> s.ent,
              mem |-> setInMemory(m.mem, key, s.res, CACHE_TTL_DEFAULT, t, s.ent.wAt, s.ent.wTtl),
              sto |-> s.sto]
        ELSE [res |-> Null, ent |-> NoEntry, mem |-> m.mem, sto |-> s.sto]

\* A variant that persists whenever it is asked to, whatever the ttl.
setPersistAlways(mem, sto, key, data, ttl, persistToStorage, t, fails) ==
  [mem |-> setInMemory(mem, key, data, ttl, t, t, ttl),
   sto |-> IF persistToStorage
             THEN setInStorage(sto, key, data, ttl, t, fails)
             ELSE sto]

\* A variant that treats the durable write as replacing the fast-tier write.
setEitherTier(mem, sto, key, data, ttl, persistToStorage, t, fails) ==
  IF persistToStorage /\ ttl > 0
    THEN [mem |-> mem, sto |-> setInStorage(sto, key, data, ttl, t, fails)]
    ELSE [mem |-> setInMemory(mem, key, data, ttl, t, t, ttl), sto |-> sto]

set(mem, sto, key, data, ttl, persistToStorage, t, fails) ==
  [mem |-> setInMemory(mem, key, data, ttl, t, t, ttl),
   sto |-> IF persistToStorage /\ ttl > 0
             THEN setInStorage(sto, key, data, ttl, t, fails)
             ELSE sto]

\* In invalidate, invalidatePrefix and clearAll, fails = the access to
\* localStorage threw (storage unavailable) and the catch ignored it.
invalidate(mem, sto, key, fails) ==
  [mem |-> [mem EXCEPT ![key] = NoEntry],
   sto |-> IF fails THEN sto ELSE [sto EXCEPT ![key] = NoEntry]]

\* A variant that forgets the durable tier.
invalidatePrefixMemoryOnly(mem, sto, prefix, fails) ==
  [mem |-> [k \in Keys |-> IF startsWith(k, prefix) THEN NoEntry ELSE mem[k]],
   sto |-> sto]

invalidatePrefix(mem, sto, prefix, fails) ==
  [mem |-> [k \in Keys |-> IF startsWith(k, prefix) THEN NoEntry ELSE mem[k]],
   sto |-> IF fails THEN sto
           ELSE [k \in Keys |-> IF startsWith(k, prefix) THEN NoEntry ELSE sto[k]]]

clearAll(mem, sto, fails) ==
  [mem |-> [k \in Keys |-> NoEntry],
   sto |-> IF fails THEN sto ELSE [k \in Keys |-> NoEntry]]

\* ------------------------------------------------------------------------
\* localStorage holds the cache entries, each under STORAGE_PREFIX + key,
\* next to the items of utils/api.ts.  Storage keys are sequences of pieces
\* of text, \o standing for the concatenation of strings.  session maps the
\* two keys of utils/api.ts to their items (Null = no item); the removals
\* made by invalidate, invalidatePrefix and clearAll are applied to them too.
\* ------------------------------------------------------------------------
\* A variant without a namespace.
NO_PREFIX == << >>

STORAGE_PREFIX == <<"ams_cache_">>

TOKEN_KEY == <<"erpToken">>
SETTINGS_KEY == <<"erpApiSettings">>
SessionKeys == {TOKEN_KEY, SETTINGS_KEY}
SessionItems == {"s1", "s2"}

storageKey(key) == STORAGE_PREFIX \o key

\* localStorage.removeItem(rawKey), lines 160 and 186.
removeItem(ses, rawKey) == [sk \in SessionKeys |-> IF sk = rawKey THEN Null ELSE ses[sk]]

\* The loops of lines 180-186 and 200-206.
removeStartingWith(ses, rawPrefix) ==
  [sk \in SessionKeys |-> IF startsWith(sk, rawPrefix) THEN Null ELSE ses[sk]]

SessionInit == session = [sk \in SessionKeys |-> Null]

\* saveToken(token), saveApiSettings(settings), clearToken() of utils/api.ts.
SaveToken(token) ==
  /\ session' = [session EXCEPT ![TOKEN_KEY] = token]
  /\ UNCHANGED <<cacheVars, clientVars, bootVars, endpointVars, keyVars, waitVars, dashVars, staleVars, wpVars, apiVars>>

SaveApiSettings(settings) ==
  /\ session' = [session EXCEPT ![SETTINGS_KEY] = settings]
  /\ UNCHANGED <<cacheVars, clientVars, bootVars, endpointVars, keyVars, waitVars, dashVars, staleVars, wpVars, apiVars>>

ClearToken ==
  /\ session' = [session EXCEPT ![TOKEN_KEY] = Null]
  /\ UNCHANGED <<cacheVars, clientVars, bootVars, endpointVars, keyVars, waitVars, dashVars, staleVars, wpVars, apiVars>>

\* ------------------------------------------------------------------------
\* Initial state: a freshly loaded page with an empty durable tier.
\* ------------------------------------------------------------------------
CacheInit ==
  /\ now = 0
  /\ memoryCache = [k \in Keys |-> NoEntry]
  /\ storage = [k \in Keys |-> NoEntry]
  /\ inFlightRequests = [k \in Keys |-> 0]
  /\ ops = << >>
  /\ calls = << >>
  /\ nSet = 0

\* ------------------------------------------------------------------------
\* Calls of the cache API made by the application
\* ------------------------------------------------------------------------
Set(key, data, ttl, persistToStorage, fails) ==
  LET r == set(memoryCache, storage, key, data, ttl, persistToStorage, now, fails) IN
  /\ nSet < MaxSets
  /\ nSet' = nSet + 1
  /\ memoryCache' = r.mem
  /\ storage' = r.sto
  /\ UNCHANGED <<now, inFlightRequests, ops, calls, clientVars, bootVars, endpointVars, sessionVars, keyVars, waitVars, dashVars, staleVars, wpVars, apiVars>>

Get(key, fails) ==
  LET r == get(memoryCache, storage, key, now, fails) IN
  /\ memoryCache' = r.mem
  /\ storage' = r.sto
  /\ UNCHANGED <<now, inFlightRequests, ops, calls, nSet, clientVars, bootVars, endpointVars, sessionVars, keyVars, waitVars, dashVars, staleVars, wpVars, apiVars>>

\* The three calls that invalidate say nothing of the history variable
\* invalidatedOps: a specification either leaves it alone (Untracked) or
\* records in it the operations of deduplicatedFetch that had not run their
\* then-callback when their key was invalidated (Tracked).
Untracked == UNCHANGED invalidatedOps

Tracked(keys) ==
  invalidatedOps' = invalidatedOps \cup
    {o \in 1..Len(ops) : ops[o].key \in keys /\ ops[o].state \in {"running", "settled"}}

Covered(prefix) == {k \in Keys : startsWith(k, prefix)}

Invalidate(key, fails) ==
  LET r == invalidate(memoryCache, storage, key, fails) IN
  /\ memoryCache' = r.mem
  /\ storage' = r.sto
  /\ session' = IF fails THEN session ELSE removeItem(session, storageKey(key))
  /\ UNCHANGED <<now, inFlightRequests, ops, calls, nSet, clientVars, bootVars, endpointVars, keyVars, waitVars, dashVars, wpVars, apiVars>>

InvalidatePrefix(prefix, fails) ==
  LET r == invalidatePrefix(memoryCache, storage, prefix, fails) IN
  /\ memoryCache' = r.mem
  /\ storage' = r.sto
  /\ session' = IF fails THEN session
                ELSE removeStartingWith(session, STORAGE_PREFIX \o prefix)
  /\ UNCHANGED <<now, inFlightRequests, ops, calls, nSet, clientVars, bootVars, endpointVars, keyVars, waitVars, dashVars, wpVars, apiVars>>

ClearAll(fails) ==
  LET r == clearAll(memoryCache, storage, fails) IN
  /\ memoryCache' = r.mem
  /\ storage' = r.sto
  /\ session' = IF fails THEN session ELSE removeStartingWith(session, STORAGE_PREFIX)
  /\ UNCHANGED <<now, inFlightRequests, ops, calls, nSet, clientVars, bootVars, endpointVars, keyVars, waitVars, dashVars, wpVars, apiVars>>

\* ------------------------------------------------------------------------
\* Request de-duplication.  An operation o is the promise chain built by
\* deduplicatedFetch: fetcher() (line 254), its then-callback that calls set
\* (lines 254-257) and the finally-callback of setInFlight (lines 226-228).
\*   state "running"  : the promise of fetcher() is not settled
\*   state "settled"  : fetcher() settled with result; the then-callback is queued
\*   state "resolved" : `promise` is settled; the finally-callback is queued
\*   state "done"     : the finally-callback has run
\* result is the resolved value, or Rejected.
\* ------------------------------------------------------------------------
Rejected == "rejected"
Pending == "pending"

\* A variant that never finds the pending operation.
getInFlightNever(inf, key) == 0

getInFlight(inf, key) == inf[key]

\* A variant that registers nothing.
setInFlightDropped(inf, key, promise) == inf

\* Line 223; the callback registered at line 226 is cleanUp below.
setInFlight(inf, key, promise) == [inf EXCEPT ![key] = promise]

\* Variants that clean up with then() or with catch() instead of finally().
cleanUpOnSuccess(inf, key, result) ==
  IF result = Rejected THEN inf ELSE [inf EXCEPT ![key] = 0]

cleanUpOnFailure(inf, key, result) ==
  IF result = Rejected THEN [inf EXCEPT ![key] = 0] ELSE inf

\* Lines 226-228: the finally-callback of the promise registered for key.
cleanUp(inf, key, result) == [inf EXCEPT ![key] = 0]

\* The operations of key whose fetcher() promise is not settled (history).
Unsettled(key) == {o \in 1..Len(ops) : ops[o].key = key /\ ops[o].state = "running"}

NewCall(key, kind, op, outcome) ==
  [key |-> key, kind |-> kind, op |-> op, outcome |-> outcome, live |-> Unsettled(key)]

\* deduplicatedFetch(key, fetcher, ttl, persistToStorage), up to its return.
\* fetcher is () => Promise<T>: it returns a promise, which settles later.
DeduplicatedFetch(key, ttl, persistToStorage) ==
  LET cached == get(memoryCache, storage, key, now, FALSE)
      inFlight == getInFlight(inFlightRequests, key)
      id == Len(ops) + 1
  IN
  /\ memoryCache' = cached.mem
  /\ storage' = cached.sto
  /\ IF cached.res # Null
       THEN UNCHANGED <<inFlightRequests, ops, calls>>
       ELSE IF inFlight # 0
         THEN /\ Len(calls) < MaxCalls
              /\ calls' = Append(calls, NewCall(key, "joined", inFlight, Pending))
              /\ UNCHANGED <<inFlightRequests, ops>>
         ELSE /\ Len(calls) < MaxCalls
              /\ Len(ops) < MaxOps
              /\ ops' = Append(ops, [key |-> key, ttl |-> ttl, persist |-> persistToStorage,
                                      state |-> "running", result |-> Pending])
              /\ calls' = Append(calls, NewCall(key, "started", id, Pending))
              /\ inFlightRequests' = setInFlight(inFlightRequests, key, id)
  /\ UNCHANGED <<now, nSet, clientVars, bootVars, endpointVars, sessionVars, keyVars, waitVars, dashVars, staleVars, wpVars, apiVars>>

\* The promise returned by fetcher() settles.
OpSettle(o, result) ==
  /\ o \in 1..Len(ops)
  /\ ops[o].state = "running"
  /\ ops' = [ops EXCEPT ![o].state = "settled", ![o].result = result]
  /\ UNCHANGED <<now, memoryCache, storage, inFlightRequests, calls, nSet, clientVars, bootVars, endpointVars, sessionVars, keyVars, waitVars, dashVars, staleVars, wpVars, apiVars>>

\* Lines 254-257: the then-callback; a rejection passes through.
OpThen(o, fails) ==
  /\ o \in 1..Len(ops)
  /\ ops[o].state = "settled"
  /\ LET r == IF ops[o].result = Rejected
                THEN [mem |-> memoryCache, sto |-> storage]
                ELSE set(memoryCache, storage, ops[o].key, ops[o].result, ops[o].ttl,
                         ops[o].persist, now, fails)
     IN /\ memoryCache' = r.mem
        /\ storage' = r.sto
  /\ ops' = [ops EXCEPT ![o].state = "resolved"]
  /\ UNCHANGED <<now, inFlightRequests, calls, nSet, clientVars, bootVars, endpointVars, sessionVars, keyVars, waitVars, dashVars, staleVars, wpVars, apiVars>>

\* Lines 226-228: the finally-callback.
OpFinally(o) ==
  /\ o \in 1..Len(ops)
  /\ ops[o].state = "resolved"
  /\ inFlightRequests' = cleanUp(inFlightRequests, ops[o].key, ops[o].result)
  /\ ops' = [ops EXCEPT ![o].state = "done"]
  /\ UNCHANGED <<now, memoryCache, storage, calls, nSet, clientVars, bootVars, endpointVars, sessionVars, keyVars, waitVars, dashVars, staleVars, wpVars, apiVars>>

\* The callers that were given the promise of operation o observe its
\* outcome (their reactions run one after the other, with nothing of this
\* module in between).  The finally-callback was attached to `promise` at
\* line 226, before line 260 returned it to any caller, so it has run before
\* any caller's reaction.
Deliver(o) ==
  /\ o \in 1..Len(ops)
  /\ ops[o].state = "done"
  /\ \E c \in 1..Len(calls) : calls[c].op = o /\ calls[c].outcome = Pending
  /\ calls' = [c \in 1..Len(calls) |->
                 IF calls[c].op = o THEN [calls[c] EXCEPT !.outcome = ops[o].result]
                                    ELSE calls[c]]
  /\ UNCHANGED <<now, memoryCache, storage, inFlightRequests, ops, nSet, clientVars, bootVars, endpointVars, sessionVars, keyVars, waitVars, dashVars, staleVars, wpVars, apiVars>>

\* The clock advances.
Tick ==
  /\ now < MaxTicks * CACHE_TTL_SHORT
  /\ now' = now + CACHE_TTL_SHORT
  /\ UNCHANGED <<memoryCache, storage, inFlightRequests, ops, calls, nSet, clientVars, bootVars, endpointVars, sessionVars, keyVars, waitVars, dashVars, staleVars, wpVars, apiVars>>

\* The page is reloaded: the module is evaluated again (lines 29 and 32), every
\* promise of the old page is gone, localStorage and the clock stay.
Restart ==
  /\ memoryCache' = [k \in Keys |-> NoEntry]
  /\ inFlightRequests' = [k \in Keys |-> 0]
  /\ ops' = << >>
  /\ calls' = << >>
  /\ UNCHANGED <<now, storage, nSet, clientVars, bootVars, endpointVars, sessionVars, keyVars, waitVars, dashVars, staleVars, wpVars, apiVars>>

\* ------------------------------------------------------------------------
\* HTTP client (amsClient.ts): fetchWithRetry
\* ------------------------------------------------------------------------
DEFAULT_MAX_RETRIES == 2
DEFAULT_RETRY_DELAY == 1000

\* Response statuses the server answers with.
Statuses == {200, 401, 404, 500, 503}

\* What one call of fetch() ends with: a response, or a thrown error.
Response(status) == [kind |-> "response", status |-> status]
Thrown(kind) == [kind |-> kind, status |-> 0]

\* AmsResult: ok, or an AmsApiError of a type (createError).
NoResult == [ok |-> FALSE, type |-> "none", status |-> 0]
OkResult == [ok |-> TRUE, type |-> "ok", status |-> 0]
createError(type, status) == [ok |-> FALSE, type |-> type, status |-> status]

\* A promise that rejects, or a call that throws: not an AmsResult.
Rejection == [ok |-> FALSE, type |-> "rejected", status |-> 0]

\* response.ok
responseOk(status) == status >= 200 /\ status <= 299

\* parseResponse, lines 116-146: parsed = response.json() or response.text()
\* resolved.
parseResponse(parsed) == IF parsed THEN OkResult ELSE createError("parse", 0)

\* A variant that takes every 4xx for a 401.
isUnauthorizedAny4xx(status) == status >= 400 /\ status <= 499

\* A variant that does not single out 401.
isUnauthorizedNever(status) == FALSE

\* Line 198.
isUnauthorized(status) == status = 401

\* A variant that retries after every status error.
isServerErrorOrClientError(status) == status >= 400

\* Line 214: response.status >= 500.
isServerError(status) == status >= 500

\* A variant that waits the same time before every retry.
linearDelayFlat(retryDelay, attempt) == retryDelay

\* Lines 218 and 264: sleep(config.retryDelay * (attempt + 1)).
linearDelay(retryDelay, attempt) == retryDelay * (attempt + 1)

\* A variant with a budget twice as large.
mayRetryTwice(attempt, maxRetries) == attempt < 2 * maxRetries

\* A variant that retries once more.
mayRetryInclusive(attempt, maxRetries) == attempt <= maxRetries

\* Lines 214, 244, 260: attempt < config.maxRetries.
mayRetry(attempt, maxRetries) == attempt < maxRetries

\* A variant that backs off after a timeout as well.
flatDelayGrowing(retryDelay, attempt) == retryDelay * (attempt + 1)

\* Line 248: sleep(config.retryDelay).
flatDelay(retryDelay, attempt) == retryDelay

\* Lines 181 and 195: the timer that aborts the request is set before fetch()
\* is called and cleared as soon as fetch() has resolved with the response,
\* before the body is read.
timerArmed(pc) == pc = "fetching"

IdleRequest ==
  [pc |-> "idle", attempt |-> 0, fetches |-> 0, unauthorized |-> 0, status |-> 0,
   seen |-> << >>, delays |-> << >>, maxRetries |-> 0, stable |-> TRUE,
   result |-> NoResult]

ClientInit ==
  /\ config = [maxRetries |-> DEFAULT_MAX_RETRIES, retryDelay |-> DEFAULT_RETRY_DELAY]
  /\ req = IdleRequest

\* configureClient({maxRetries}).  req.maxRetries is the maxRetries the request
\* started under, and req.stable records that the configuration kept it
\* while the request was being made.
ConfigureClient(maxRetries) ==
  /\ config' = [config EXCEPT !.maxRetries = maxRetries]
  /\ req' = IF req.pc \in {"idle", "done"} \/ maxRetries = config.maxRetries
              THEN req
              ELSE [req EXCEPT !.stable = FALSE]
  /\ UNCHANGED <<cacheVars, bootVars, endpointVars, sessionVars, keyVars, waitVars, dashVars, staleVars, wpVars, apiVars>>

\* get/post/put/del: fetchWithRetry(method, url, params, body) with attempt = 0,
\* up to the await of fetch() at line 188.
StartRequest ==
  /\ req.pc \in {"idle", "done"}
  /\ req' = [IdleRequest EXCEPT !.pc = "fetching", !.fetches = 1,
                               !.maxRetries = config.maxRetries]
  /\ UNCHANGED <<cacheVars, config, bootVars, endpointVars, sessionVars, keyVars, waitVars, dashVars, staleVars, wpVars, apiVars>>

\* The end of the request with result r.
Finish(r, result) == [r EXCEPT !.pc = "done", !.result = result]

\* The request sleeps for delay and calls fetchWithRetry with attempt + 1.
Retry(r, delay) == [r EXCEPT !.pc = "sleeping", !.delays = Append(@, delay)]

\* fetch() resolves with a response of the given status (lines 188-207).
\* onUnauthorized is the callback configured by initAmsApi or the default one.
Respond(status) ==
  /\ req.pc = "fetching"
  /\ LET r == [req EXCEPT !.seen = Append(@, Response(status)), !.status = status] IN
     req' = IF isUnauthorized(status)
              THEN Finish([r EXCEPT !.unauthorized = @ + 1], createError("http", 401))
              ELSE [r EXCEPT !.pc = "body"]
  /\ UNCHANGED <<cacheVars, config, bootVars, endpointVars, sessionVars, keyVars, waitVars, dashVars, staleVars, wpVars, apiVars>>

\* The body of the response has been read: response.text() of line 211, whose
\* failure is caught there, or parseResponse of line 236 (parsed = it decoded).
BodyRead(parsed) ==
  /\ req.pc = "body"
  /\ req' = IF ~responseOk(req.status)
              THEN IF isServerError(req.status) /\ mayRetry(req.attempt, config.maxRetries)
                     THEN Retry(req, linearDelay(config.retryDelay, req.attempt))
                     ELSE Finish(req, createError("http", req.status))
              ELSE Finish(req, parseResponse(parsed))
  /\ UNCHANGED <<cacheVars, config, bootVars, endpointVars, sessionVars, keyVars, waitVars, dashVars, staleVars, wpVars, apiVars>>

\* fetch() rejects (lines 238-284).  "abort" is the AbortError of the timeout.
\* A connectivity failure makes fetch() reject with a TypeError whose message
\* is the platform's: "network" is one whose message contains 'fetch'
\* ('Failed to fetch', 'fetch failed'), "loadFailed" one whose message does
\* not ('Load failed').  "other" is any other error thrown in the try block.
Throw(kind) ==
  /\ req.pc = "fetching"
  /\ kind = "abort" => timerArmed(req.pc)
  /\ LET r == [req EXCEPT !.seen = Append(@, Thrown(kind))] IN
     req' = IF kind = "abort"
              THEN IF mayRetry(r.attempt, config.maxRetries)
                     THEN Retry(r, flatDelay(config.retryDelay, r.attempt))
                     ELSE Finish(r, createError("timeout", 0))
              ELSE IF kind = "network"
                THEN IF mayRetry(r.attempt, config.maxRetries)
                       THEN Retry(r, linearDelay(config.retryDelay, r.attempt))
                       ELSE Finish(r, createError("network", 0))
                ELSE Finish(r, createError("unknown", 0))
  /\ UNCHANGED <<cacheVars, config, bootVars, endpointVars, sessionVars, keyVars, waitVars, dashVars, staleVars, wpVars, apiVars>>

\* sleep() is over: fetchWithRetry(method, endpoint, params, body, attempt + 1).
Wake ==
  /\ req.pc = "sleeping"
  /\ req' = [req EXCEPT !.pc = "fetching", !.attempt = @ + 1, !.fetches = @ + 1]
  /\ UNCHANGED <<cacheVars, config, bootVars, endpointVars, sessionVars, keyVars, waitVars, dashVars, staleVars, wpVars, apiVars>>

ThrownKinds == {"abort", "network", "loadFailed", "other"}

ClientNext ==
  \/ \E n \in 0..MaxRetries : ConfigureClient(n)
  \/ StartRequest
  \/ \E st \in Statuses : Respond(st)
  \/ \E parsed \in BOOLEAN : BodyRead(parsed)
  \/ \E kind \in ThrownKinds : Throw(kind)
  \/ Wake

\* ------------------------------------------------------------------------
\* Referential bootstrapper (amsBootstrap.ts).  Three of the eleven lists of
\* the ReferentialStore are modelled; all are treated alike by the code.
\* A list is [st, by, items]: items is what the accessor returns (<< >> is
\* []), by is a history field, the attempt whose Promise.all produced the
\* list (0 = emptyStore).  The same record with st = "pending" or "rejected"
\* stands for a fetch that has not settled or has failed.
\* ------------------------------------------------------------------------
Lists == {"acTypes", "acFleet", "atas"}

emptyStore == [l \in Lists |-> [st |-> "ok", by |-> 0, items |-> << >>]]

PendingFetch == [st |-> "pending", by |-> 0, items |-> << >>]
RejectedFetch == [st |-> "rejected", by |-> 0, items |-> << >>]

\* What fetchReferentials.<l>() resolves with in attempt a.
Fetched(a, l) == [st |-> "ok", by |-> a, items |-> <<l>>]

\* A variant without the per-fetch catch.
uncaught(a, outcome) == outcome

\* Lines 83-93: fetchReferentials.<l>().catch(() => []).
catchEmpty(a, outcome) ==
  IF outcome.st = "rejected" THEN [st |-> "ok", by |-> a, items |-> << >>] ELSE outcome

\* A variant that keeps the previous list where the new one is empty.
mergeStore(old, lists) == [l \in Lists |-> IF lists[l].items = << >> THEN old[l] ELSE lists[l]]

\* Lines 97-109: referentialStore = { acTypes, acFleet, ... }.
assignStore(old, lists) == lists

\* A variant without the check of line 56.
bootstrapPathNoJoin(promise, loaded) == IF loaded THEN "return" ELSE "start"

\* Lines 56-64: which way a call of bootstrapReferentials() goes.
bootstrapPath(promise, loaded) ==
  IF promise # 0 THEN "join"
  ELSE IF loaded THEN "return"
  ELSE "start"

\* The accessors getAcTypes(), getAcFleet(), getAtas(), ...
getList(store, l) == store[l].items

BootInit ==
  /\ referentialStore = emptyStore
  /\ isBootstrapped = FALSE
  /\ bootstrapPromise = 0
  /\ attempts = << >>
  /\ bootCalls = << >>
  /\ resets = 0

Completed == {a \in 1..Len(attempts) : attempts[a].state = "done"}

\* bootstrapReferentials(), up to the await of line 82.  A started attempt
\* has called every fetchReferentials.<l>().  History fields of a call: the
\* resets and completed attempts at the time of the call.
bootstrapReferentials ==
  /\ Len(bootCalls) < MaxBootCalls
  /\ LET path == bootstrapPath(bootstrapPromise, isBootstrapped)
         a == Len(attempts) + 1
         call == [path |-> path, resets |-> resets, completed |-> Completed,
                  att |-> 0, resolved |-> FALSE] IN
     CASE path = "join" ->
            /\ bootCalls' = Append(bootCalls, [call EXCEPT !.att = bootstrapPromise])
            /\ UNCHANGED <<attempts, bootstrapPromise>>
       [] path = "return" ->
            /\ bootCalls' = Append(bootCalls, [call EXCEPT !.resolved = TRUE])
            /\ UNCHANGED <<attempts, bootstrapPromise>>
       [] path = "start" ->
            /\ a <= MaxAttempts
            /\ attempts' = Append(attempts, [state |-> "fetching", resets |-> resets,
                                             results |-> [l \in Lists |-> PendingFetch]])
            /\ bootstrapPromise' = a
            /\ bootCalls' = Append(bootCalls, [call EXCEPT !.att = a])
  /\ UNCHANGED <<referentialStore, isBootstrapped, resets>>

\* A call of bootstrapReferentials() made by the application.
BootstrapReferentials ==
  /\ bootstrapReferentials
  /\ UNCHANGED <<cacheVars, clientVars, endpointVars, sessionVars, keyVars, waitVars, dashVars, staleVars, wpVars, apiVars>>

\* The promise of fetchReferentials.<l>() of attempt a settles.
FetchSettle(a, l, ok) ==
  /\ a \in 1..Len(attempts)
  /\ attempts[a].state = "fetching"
  /\ attempts[a].results[l].st = "pending"
  /\ attempts' = [attempts EXCEPT ![a].results[l] = IF ok THEN Fetched(a, l) ELSE RejectedFetch]
  /\ UNCHANGED <<referentialStore, isBootstrapped, bootstrapPromise, bootCalls, resets,
                 cacheVars, clientVars, endpointVars, sessionVars, keyVars, waitVars, dashVars, staleVars, wpVars, apiVars>>

\* Promise.all has settled and the closure of attempt a runs to its end
\* (lines 96-127): the store and the flag are written unless Promise.all
\* rejected (catch of line 122), and finally clears bootstrapPromise.
BootComplete(a) ==
  /\ a \in 1..Len(attempts)
  /\ attempts[a].state = "fetching"
  /\ \A l \in Lists : attempts[a].results[l].st # "pending"
  /\ LET lists == [l \in Lists |-> catchEmpty(a, attempts[a].results[l])] IN
     IF \E l \in Lists : lists[l].st = "rejected"
       THEN UNCHANGED <<referentialStore, isBootstrapped>>
       ELSE /\ referentialStore' = assignStore(referentialStore, lists)
            /\ isBootstrapped' = TRUE
  /\ bootstrapPromise' = 0
  /\ attempts' = [attempts EXCEPT ![a].state = "done"]
  /\ UNCHANGED <<bootCalls, resets, cacheVars, clientVars, endpointVars, sessionVars, keyVars, waitVars, dashVars, staleVars, wpVars, apiVars>>

\* The promise returned to call c of bootstrapReferentials() resolves.
BootResolve(c) ==
  /\ c \in 1..Len(bootCalls)
  /\ ~bootCalls[c].resolved
  /\ attempts[bootCalls[c].att].state = "done"
  /\ bootCalls' = [bootCalls EXCEPT ![c].resolved = TRUE]
  /\ UNCHANGED <<referentialStore, isBootstrapped, bootstrapPromise, attempts, resets,
                 cacheVars, clientVars, endpointVars, sessionVars, keyVars, waitVars, dashVars, staleVars, wpVars, apiVars>>

\* resetBootstrap(), lines 242-246.
ResetBootstrap ==
  /\ resets < MaxResets
  /\ resets' = resets + 1
  /\ referentialStore' = emptyStore
  /\ isBootstrapped' = FALSE
  /\ bootstrapPromise' = 0
  /\ UNCHANGED <<attempts, bootCalls, cacheVars, clientVars, endpointVars, sessionVars, keyVars, waitVars, dashVars, staleVars, wpVars, apiVars>>

BootNext ==
  \/ BootstrapReferentials
  \/ \E a \in 1..MaxAttempts, l \in Lists, ok \in BOOLEAN : FetchSettle(a, l, ok)
  \/ \E a \in 1..MaxAttempts : BootComplete(a)
  \/ \E c \in 1..MaxBootCalls : BootResolve(c)
  \/ ResetBootstrap

\* A variant of waitForBootstrap() that never awaits.
waitPathNoAwait(promise, loaded) == "return"

\* Lines 144-147: which way a call of waitForBootstrap() goes.
waitPath(promise, loaded) ==
  IF loaded THEN "return"
  ELSE IF promise # 0 THEN "await"
  ELSE "return"

NoWait ==
  [path |-> "none", att |-> 0, loadedAtCall |-> FALSE, running |-> {},
   resolved |-> TRUE, loaded |-> FALSE, resets |-> 0]

WaitInit == waitCall = NoWait

Running == {a \in 1..Len(attempts) : attempts[a].state = "fetching"}

\* waitForBootstrap(), up to its return or its await; the call followed is
\* one made after the previous one has returned.  History fields of a call:
\* the flag and the running attempts at the time of the call, and the flag
\* and the resets at the time it resolved.
WaitForBootstrap ==
  /\ waitCall.resolved
  /\ LET path == waitPath(bootstrapPromise, isBootstrapped) IN
     waitCall' =
       [path |-> path, att |-> IF path = "await" THEN bootstrapPromise ELSE 0,
        loadedAtCall |-> isBootstrapped, running |-> Running,
        resolved |-> path = "return", loaded |-> isBootstrapped, resets |-> resets]
  /\ UNCHANGED <<cacheVars, clientVars, bootVars, endpointVars, sessionVars, keyVars, dashVars, staleVars, wpVars, apiVars>>

\* Line 146: the awaited bootstrapPromise has resolved and the call resumes.
WaitResume ==
  /\ ~waitCall.resolved
  /\ attempts[waitCall.att].state = "done"
  /\ waitCall' = [waitCall EXCEPT !.resolved = TRUE, !.loaded = isBootstrapped,
                                  !.resets = resets]
  /\ UNCHANGED <<cacheVars, clientVars, bootVars, endpointVars, sessionVars, keyVars, dashVars, staleVars, wpVars, apiVars>>

\* The bootstrapper with a caller of waitForBootstrap().  The calls of
\* bootstrapReferentials() are those that start an attempt: the others leave
\* the module's variables as they are, and what becomes of the promises
\* handed to the callers is explored in BootNext.
WaitNext ==
  \/ BootstrapReferentials /\ bootstrapPath(bootstrapPromise, isBootstrapped) = "start"
  \/ \E a \in 1..MaxAttempts, l \in Lists, ok \in BOOLEAN : FetchSettle(a, l, ok)
  \/ \E a \in 1..MaxAttempts : BootComplete(a)
  \/ ResetBootstrap
  \/ WaitForBootstrap
  \/ WaitResume

\* ------------------------------------------------------------------------
\* Dashboard loader (amsInit.ts, loadWpDashboard).  A sub-request is a call
\* of one of the fetch functions that return an AmsResult; it settles with
\*   "failed" : { ok: false, error }
\*   "list"   : { ok: true, data } with data a non-empty array
\*   "empty"  : { ok: true, data: [] }
\*   "null"   : { ok: true, data: null } (the body of the response is the
\*              JSON text null: parseResponse casts what it decodes to T)
\* The result is modelled by the set of its fields that were assigned from
\* a sub-request and by the endpoints of the entries of errors.
\* ------------------------------------------------------------------------
SubRequests ==
  {"aircraft", "wpDetail", "workOrders", "rfqList", "reqList", "poinList", "customerQuotes"}
Parallel == {"wpDetail", "workOrders", "rfqList"}
OkPayloads == {"list", "empty", "null"}
Payloads == OkPayloads \cup {"failed"}
DashParams == [acReg : BOOLEAN, acId : BOOLEAN, locFromRefId : BOOLEAN, locToRefId : BOOLEAN]

\* Lines 197-229: the location-dependent sub-requests made for params q.
locationRequests(q) ==
  (IF q.locFromRefId THEN {"reqList"} ELSE {})
    \cup (IF q.locToRefId /\ q.acReg THEN {"poinList", "customerQuotes"} ELSE {})

\* Line 139: { ...emptyDashboard, errors: [] }.  shared tells whether errors
\* is the array of emptyDashboard itself.
newResult(empty) == [data |-> {}, errors |-> << >>, shared |-> FALSE]

\* result.errors.push(e).
push(result, e) == [result EXCEPT !.errors = Append(@, e)]

\* Lines 148-153, 173-178: a sub-request of which the first row is kept.
\* Reading data.length throws a TypeError when data is null.
takeFirst(result, s, outcome) ==
  CASE outcome = "null" -> [thrown |-> TRUE, result |-> result]
    [] outcome = "list" -> [thrown |-> FALSE, result |-> [result EXCEPT !.data = @ \cup {s}]]
    [] outcome = "empty" -> [thrown |-> FALSE, result |-> result]
    [] outcome = "failed" -> [thrown |-> FALSE, result |-> push(result, s)]

\* Lines 181-192, 199-227: a sub-request of which the list is kept.
takeList(result, s, outcome) ==
  IF outcome = "failed" THEN push(result, s) ELSE [result EXCEPT !.data = @ \cup {s}]

\* Lines 236-243: the catch of loadWpDashboard.
catchUnexpected(result) == push(result, "loadWpDashboard")

IdleDashboard ==
  [pc |-> "idle", params |-> [acReg |-> FALSE, acId |-> FALSE, locFromRefId |-> FALSE, locToRefId |-> FALSE],
   sub |-> [s \in SubRequests |-> "none"], handled |-> {}, result |-> newResult([errors |-> << >>]),
   loads |-> 0]

DashInit ==
  /\ emptyDashboard = [errors |-> << >>]
  /\ dash = IdleDashboard

\* What the array emptyDashboard.errors holds after result has changed.
sharedErrors(empty, result) == IF result.shared THEN [errors |-> result.errors] ELSE empty

\* A variant that makes the location-dependent sub-requests along with the
\* three parallel ones.
startParallelAndLocation(d) ==
  [d EXCEPT !.pc = "step2",
            !.sub = [s \in SubRequests |->
                       IF s \in Parallel \cup locationRequests(d.params) THEN "pending" ELSE @[s]]]

\* Lines 163-170: the three parallel sub-requests are made.
startParallel(d) == [d EXCEPT !.pc = "step2", !.sub = [s \in SubRequests |-> IF s \in Parallel THEN "pending" ELSE @[s]]]

\* loadWpDashboard(q), up to its first await or its return (lines 136-163).
LoadWpDashboard(q) ==
  /\ dash.pc \in {"idle", "done"}
  /\ dash.loads < MaxLoads
  /\ LET d == [IdleDashboard EXCEPT !.params = q, !.result = newResult(emptyDashboard),
                                    !.loads = dash.loads + 1] IN
     dash' = IF q.acReg /\ ~q.acId THEN [d EXCEPT !.pc = "step1", !.sub["aircraft"] = "pending"]
             ELSE IF ~q.acId THEN [d EXCEPT !.pc = "done"]
             ELSE startParallel(d)
  /\ UNCHANGED <<emptyDashboard, cacheVars, clientVars, bootVars, endpointVars, sessionVars, keyVars, waitVars, staleVars, wpVars, apiVars>>

\* The promise of sub-request s settles with an AmsResult.
SubSettle(s, outcome) ==
  /\ dash.sub[s] = "pending"
  /\ dash' = [dash EXCEPT !.sub[s] = outcome]
  /\ UNCHANGED <<emptyDashboard, cacheVars, clientVars, bootVars, endpointVars, sessionVars, keyVars, waitVars, staleVars, wpVars, apiVars>>

\* Lines 147-163: the aircraft is known; without an id the call returns.
AircraftDone ==
  /\ dash.pc = "step1"
  /\ dash.sub["aircraft"] \in Payloads
  /\ LET t == takeFirst(dash.result, "aircraft", dash.sub["aircraft"])
         d == [dash EXCEPT !.result = IF t.thrown THEN catchUnexpected(t.result) ELSE t.result] IN
       /\ dash' = IF dash.sub["aircraft"] = "list" THEN startParallel(d) ELSE [d EXCEPT !.pc = "done"]
       /\ emptyDashboard' = sharedErrors(emptyDashboard, d.result)
  /\ UNCHANGED <<cacheVars, clientVars, bootVars, endpointVars, sessionVars, keyVars, waitVars, staleVars, wpVars, apiVars>>

\* Lines 172-234: Promise.all of the three has resolved; the results are
\* processed in turn and the location-dependent sub-requests are made.
ParallelDone ==
  /\ dash.pc = "step2"
  /\ \A s \in Parallel : dash.sub[s] \in Payloads
  /\ LET t == takeFirst(dash.result, "wpDetail", dash.sub["wpDetail"])
         r == takeList(takeList(t.result, "workOrders", dash.sub["workOrders"]),
                       "rfqList", dash.sub["rfqList"])
         loc == locationRequests(dash.params) IN
       IF t.thrown
         THEN /\ dash' = [dash EXCEPT !.pc = "done", !.result = catchUnexpected(t.result)]
              /\ emptyDashboard' = sharedErrors(emptyDashboard, catchUnexpected(t.result))
         ELSE /\ dash' = [dash EXCEPT !.result = r,
                                      !.pc = IF loc = {} THEN "done" ELSE "step3",
                                      !.sub = [s \in SubRequests |-> IF s \in loc THEN "pending" ELSE @[s]]]
              /\ emptyDashboard' = sharedErrors(emptyDashboard, r)
  /\ UNCHANGED <<cacheVars, clientVars, bootVars, endpointVars, sessionVars, keyVars, waitVars, staleVars, wpVars, apiVars>>

\* Lines 199-227: the then-callback of location-dependent sub-request s.
LocationThen(s) ==
  /\ dash.pc = "step3"
  /\ s \in locationRequests(dash.params) \ dash.handled
  /\ dash.sub[s] \in Payloads
  /\ LET r == takeList(dash.result, s, dash.sub[s]) IN
       /\ dash' = [dash EXCEPT !.result = r, !.handled = @ \cup {s}]
       /\ emptyDashboard' = sharedErrors(emptyDashboard, r)
  /\ UNCHANGED <<cacheVars, clientVars, bootVars, endpointVars, sessionVars, keyVars, waitVars, staleVars, wpVars, apiVars>>

\* Lines 232-253: Promise.all of the location promises has resolved.
LocationDone ==
  /\ dash.pc = "step3"
  /\ dash.handled = locationRequests(dash.params)
  /\ dash' = [dash EXCEPT !.pc = "done"]
  /\ UNCHANGED <<emptyDashboard, cacheVars, clientVars, bootVars, endpointVars, sessionVars, keyVars, waitVars, staleVars, wpVars, apiVars>>

DashNext ==
  \/ \E q \in DashParams : LoadWpDashboard(q)
  \/ \E s \in SubRequests, o \in Payloads : SubSettle(s, o)
  \/ AircraftDone
  \/ ParallelDone
  \/ \E s \in SubRequests : LocationThen(s)
  \/ LocationDone

\* ------------------------------------------------------------------------
\* The cache entries of the dashboard requests.  A cache key is the text that
\* makeCacheKey builds from the endpoint and the params of the query builder
\* (amsEndpoints.ts, lines 184-208): endpoint?name=value&..., the names in the
\* order of Array.prototype.sort (by code units, upper case first).  An id is
\* the sequence of its decimal digits, so that String.startsWith is the
\* prefix relation.  wpCache is the set of keys that have a valid entry; the
\* two tiers are invalidated alike.
\* ------------------------------------------------------------------------
WpIds == {<<"1">>, <<"2">>, <<"1", "2">>}
AcId == <<"7">>
AcReg == <<"F">>
LocRefId == <<"3">>

WpSubs == SubRequests \ {"aircraft"}

\* makeCacheKey(ENDPOINTS.*, queryBuilders.*(...)) of the fetch function of
\* sub-request s for work package wp.
subKey(s, wp) ==
  CASE s = "wpDetail" ->
         <<"/v1/wpdetaillist", "?", "acid", "=">> \o AcId \o <<"&", "echeworkpackid", "=">> \o wp
    [] s = "workOrders" -> <<"/v1/eche", "?", "echeworkpackid", "=">> \o wp
    [] s = "rfqList" -> <<"/v1/movitem/rfqlist", "?", "forac", "=">> \o AcId
    [] s = "reqList" ->
         <<"/v1/movitem/reqlist", "?", "LocFromREFID", "=">> \o LocRefId
           \o <<"&", "WP", "=">> \o wp \o <<"&", "includewolist", "=", "true">>
    [] s = "poinList" ->
         <<"/v1/movitem/poinlist", "?", "WP", "=">> \o wp \o <<"&", "acregistr", "=">> \o AcReg
           \o <<"&", "includewolist", "=", "true", "&", "loctorefid", "=">> \o LocRefId
    [] s = "customerQuotes" ->
         <<"/v1/movitem/cusomerquotes", "?", "WP", "=">> \o wp \o <<"&", "acregistr", "=">> \o AcReg
           \o <<"&", "loctorefid", "=">> \o LocRefId

\* invalidatePrefix (amsCache.ts, lines 169-190) on the set of cached keys.
invalidatePrefixKeys(cached, prefix) == {k \in cached : ~startsWith(k, prefix)}

\* invalidateWpCache(wpId), amsInit.ts lines 273-277.
invalidateWpCache(cached, wpId) ==
  invalidatePrefixKeys(invalidatePrefixKeys(cached, <<"/v1/wpdetaillist", "?">>),
                       <<"/v1/eche", "?", "echeworkpackid", "=">> \o wpId)

WpInit == wpCache = {}

\* The fetch function of sub-request s is called for work package wp, as
\* loadWpDashboard does, misses the cache and succeeds: the then-callback of
\* deduplicatedFetch writes the entry.  (A hit leaves the cache as it is.)
FetchSub(s, wp) ==
  /\ subKey(s, wp) \notin wpCache
  /\ wpCache' = wpCache \cup {subKey(s, wp)}
  /\ UNCHANGED <<cacheVars, clientVars, bootVars, endpointVars, sessionVars, keyVars, waitVars,
                 dashVars, staleVars, apiVars>>

InvalidateWpCache(wpId) ==
  /\ wpCache' = invalidateWpCache(wpCache, wpId)
  /\ UNCHANGED <<cacheVars, clientVars, bootVars, endpointVars, sessionVars, keyVars, waitVars,
                 dashVars, staleVars, apiVars>>

WpNext ==
  \/ \E s \in WpSubs, wp \in WpIds : FetchSub(s, wp)
  \/ \E wp \in WpIds : InvalidateWpCache(wp)

\* ------------------------------------------------------------------------
\* amsInit.ts: initAmsApi and resetApi.  api.isInitialized is the module
\* flag of line 22; api.call is the last of the two that ran.
\* ------------------------------------------------------------------------
ApiInit == api = [isInitialized |-> FALSE, call |-> "none"]

\* What resetApi() does to the module state of amsBootstrap.ts (lines
\* 75-81: clearCache() and isInitialized = false, nothing else).
resetApiReferentials(store, loaded, promise) ==
  [store |-> store, loaded |-> loaded, promise |-> promise]

\* initAmsApi(options), lines 32-66.
InitAmsApi(skipReferentials) ==
  /\ IF api.isInitialized
       THEN /\ api' = [api EXCEPT !.call = "initialized"]
            /\ UNCHANGED <<config, bootVars>>
       ELSE /\ config' = [maxRetries |-> 2, retryDelay |-> 1000]
            /\ IF skipReferentials THEN UNCHANGED bootVars ELSE bootstrapReferentials
            /\ api' = [isInitialized |-> TRUE, call |-> "init"]
  /\ UNCHANGED <<req, cacheVars, endpointVars, sessionVars, keyVars, waitVars, dashVars,
                 staleVars, wpVars>>

\* resetApi(), lines 75-81.
ResetApi(fails) ==
  LET r == clearAll(memoryCache, storage, fails)
      b == resetApiReferentials(referentialStore, isBootstrapped, bootstrapPromise) IN
  /\ memoryCache' = r.mem
  /\ storage' = r.sto
  /\ session' = IF fails THEN session ELSE removeStartingWith(session, STORAGE_PREFIX)
  /\ referentialStore' = b.store
  /\ isBootstrapped' = b.loaded
  /\ bootstrapPromise' = b.promise
  /\ api' = [isInitialized |-> FALSE, call |-> "reset"]
  /\ UNCHANGED <<now, inFlightRequests, ops, calls, nSet, attempts, bootCalls, resets,
                 clientVars, endpointVars, keyVars, waitVars, dashVars, staleVars, wpVars>>

ApiNext ==
  \/ \E skip \in BOOLEAN : InitAmsApi(skip)
  \/ \E fails \in BOOLEAN : ResetApi(fails)
  \/ \E a \in 1..MaxAttempts, l \in Lists, ok \in BOOLEAN : FetchSettle(a, l, ok)
  \/ \E a \in 1..MaxAttempts : BootComplete(a)
  \/ \E k \in Keys, persist \in BOOLEAN :
       Set(k, "v1", CACHE_TTL_DEFAULT, persist, FALSE)

\* ------------------------------------------------------------------------
\* Fetch functions of amsEndpoints.ts.  Each passes deduplicatedFetch a
\* fetcher that makes one request of the client; the call modelled here is
\* one that misses the cache and starts the operation, whose outcome
\* deduplicatedFetch hands on as it is.
\*   "fetchReferential" : fetchReferentials.* (lines 230-259)
\*   "fetchTyped"       : fetchAircraftByReg and the other fetch functions
\*                        that return an AmsResult (lines 265-291 and below)
\* ------------------------------------------------------------------------
FetchFunctions == {"fetchReferential", "fetchTyped"}

NoCall == [fn |-> "none", state |-> "none", outcome |-> NoResult]

\* The fetcher: lines 235-241, 272-276.
fetcher(result) == IF ~result.ok THEN Rejection ELSE result

\* Lines 230-245: the promise of deduplicatedFetch is returned as it is.
fetchReferential(outcome) == outcome

\* Lines 269-290: try { await deduplicatedFetch } catch { type: 'unknown' }.
fetchTyped(outcome) ==
  IF outcome = Rejection THEN createError("unknown", 0) ELSE OkResult

EndpointInit == epCall = NoCall

\* A fetch function is called and its fetcher calls amsClient.get.
EndpointCall(fn) ==
  /\ epCall.state \in {"none", "returned"}
  /\ req.pc \in {"idle", "done"}
  /\ epCall' = [fn |-> fn, state |-> "waiting", outcome |-> NoResult]
  /\ req' = [IdleRequest EXCEPT !.pc = "fetching", !.fetches = 1,
                               !.maxRetries = config.maxRetries]
  /\ UNCHANGED <<cacheVars, config, bootVars, sessionVars, keyVars, waitVars, dashVars, staleVars, wpVars, apiVars>>

\* amsClient.get has returned and the fetch function settles.
EndpointReturn ==
  /\ epCall.state = "waiting"
  /\ req.pc = "done"
  /\ epCall' = [epCall EXCEPT !.state = "returned",
                          !.outcome = IF epCall.fn = "fetchReferential"
                                        THEN fetchReferential(fetcher(req.result))
                                        ELSE fetchTyped(fetcher(req.result))]
  /\ UNCHANGED <<cacheVars, clientVars, bootVars, sessionVars, keyVars, waitVars, dashVars, staleVars, wpVars, apiVars>>

EndpointNext ==
  \/ \E fn \in FetchFunctions : EndpointCall(fn)
  \/ EndpointReturn
  \/ \E st \in Statuses : Respond(st)
  \/ \E parsed \in BOOLEAN : BodyRead(parsed)
  \/ \E kind \in ThrownKinds : Throw(kind)
  \/ Wake

\* ------------------------------------------------------------------------
\* makeCacheKey (amsCache.ts, lines 40-49).  A params object is the sequence
\* of its [name, value] properties in insertion order, the names distinct;
\* names and texts are sequences of characters.  A value is a string, a
\* number or a boolean, with the text that the template literal gives it.
\* ------------------------------------------------------------------------
Endpoints == {<<"/gen/ata">>, <<"/ac/list">>}
ParamNames == {<<"a">>, <<"a", "b">>, <<"b">>}
ParamValues == {[type |-> "string", text |-> <<"1">>],
                [type |-> "number", text |-> <<"1">>],
                [type |-> "boolean", text |-> <<"t", "r", "u", "e">>]}

charCode == [c \in {"a", "b"} |-> IF c = "a" THEN 97 ELSE 98]

\* s < t for strings, as Array.prototype.sort compares them by default:
\* by code units, a proper prefix first.
RECURSIVE lessThan(_, _)
lessThan(s, t) ==
  IF t = << >> THEN FALSE
  ELSE IF s = << >> THEN TRUE
  ELSE IF charCode[Head(s)] # charCode[Head(t)] THEN charCode[Head(s)] < charCode[Head(t)]
  ELSE lessThan(Tail(s), Tail(t))

Range(seq) == {seq[i] : i \in 1..Len(seq)}

\* Object.keys(params)
objectKeys(params) == [i \in 1..Len(params) |-> params[i].name]

\* params[k]
property(params, k) == (CHOOSE i \in 1..Len(params) : params[i].name = k)

\* The names of the set S in ascending order.
RECURSIVE ascending(_)
ascending(S) ==
  IF S = {} THEN << >>
  ELSE LET least == CHOOSE n \in S : \A o \in S \ {n} : lessThan(n, o) IN
       <<least>> \o ascending(S \ {least})

\* A variant that leaves the names in insertion order.
unsorted(names) == names

\* Object.keys(params).sort(), line 45.
sort(names) == ascending(Range(names))

\* .join('&')
RECURSIVE join(_)
join(parts) ==
  IF parts = << >> THEN << >>
  ELSE IF Len(parts) = 1 THEN Head(parts)
  ELSE Head(parts) \o <<"&">> \o join(Tail(parts))

\* params.defined = FALSE is a call without params.
NoParams == [defined |-> FALSE, props |-> << >>]

makeCacheKey(endpoint, params) ==
  IF ~params.defined \/ Len(objectKeys(params.props)) = 0
    THEN endpoint
    ELSE LET names == sort(objectKeys(params.props))
             parts == [i \in 1..Len(names) |->
                         names[i] \o <<"=">> \o params.props[property(params.props, names[i])].value.text]
         IN endpoint \o <<"?">> \o join(parts)

\* The params objects with at most MaxParams properties.
Props == UNION {[1..n -> [name : ParamNames, value : ParamValues]] : n \in 0..MaxParams}
ParamObjects ==
  {[defined |-> TRUE, props |-> q] :
     q \in {q \in Props : \A i, j \in 1..Len(q) : i # j => q[i].name # q[j].name}}

KeyInit == keyCall = [state |-> "none", endpoint |-> << >>, params |-> NoParams, key |-> << >>]

MakeCacheKey(endpoint, params) ==
  /\ keyCall' = [state |-> "returned", endpoint |-> endpoint, params |-> params,
                 key |-> makeCacheKey(endpoint, params)]
  /\ UNCHANGED <<cacheVars, clientVars, bootVars, endpointVars, sessionVars, waitVars, dashVars, staleVars, wpVars, apiVars>>

KeyNext == \E e \in Endpoints, q \in ParamObjects \cup {NoParams} : MakeCacheKey(e, q)

\* The state after the modules are loaded.
Init ==
  /\ CacheInit /\ ClientInit /\ BootInit /\ EndpointInit /\ SessionInit /\ KeyInit
  /\ WaitInit /\ DashInit /\ invalidatedOps = {} /\ WpInit /\ ApiInit

SpecBoot == Init /\ [][BootNext]_vars

SpecWait == Init /\ [][WaitNext]_vars

SpecDash == Init /\ [][DashNext]_vars

SpecWp == Init /\ [][WpNext]_vars

SpecApi == Init /\ [][ApiNext]_vars

SpecEndpoints == Init /\ [][EndpointNext]_vars

SpecKey == Init /\ [][KeyNext]_vars

SpecClient == Init /\ [][ClientNext]_vars

\* The timers of the client fire: the abort timer of an attempt, while it is
\* armed, and the timer of sleep().  Nothing makes the server answer or send
\* the rest of a body.
Timeout == Throw("abort")

SpecClientLive == Init /\ [][ClientNext]_vars /\ WF_vars(Timeout) /\ WF_vars(Wake)

\* The cache store alone: the application's calls, the clock and page reloads.
StoreNext ==
  \/ \E k \in Keys, d \in Data, ttl \in Ttls, p \in BOOLEAN, f \in BOOLEAN : Set(k, d, ttl, p, f)
  \/ \E k \in Keys, f \in BOOLEAN : Get(k, f)
  \/ \E k \in Keys, f \in BOOLEAN : Invalidate(k, f) /\ Untracked
  \/ \E p \in Prefixes, f \in BOOLEAN : InvalidatePrefix(p, f) /\ Untracked
  \/ \E f \in BOOLEAN : ClearAll(f) /\ Untracked
  \/ Tick
  \/ Restart

SpecStore == Init /\ [][StoreNext]_vars

\* The request coalescer on top of the cache store.  The application's own
\* writes are of one kind here (what matters to the coalescer is whether a key
\* has a valid entry), and the durable writes of the then-callback succeed.
\* Entries leave the cache by invalidation; their expiry with the passing of
\* time is explored in SpecStore.
CoalesceNext ==
  \/ Set(<<"b">>, "v2", CACHE_TTL_SHORT, FALSE, FALSE)
  \/ \E k \in Keys : Invalidate(k, FALSE) /\ Untracked
  \/ \E p \in {<<"a">>, <<"b">>} : InvalidatePrefix(p, FALSE) /\ Untracked
  \/ ClearAll(FALSE) /\ Untracked
  \/ \E k \in Keys : DeduplicatedFetch(k, CACHE_TTL_SHORT, TRUE)
  \/ \E k \in Keys : DeduplicatedFetch(k, CACHE_TTL_NONE, FALSE)
  \/ \E o \in 1..MaxOps, r \in {"v1", Rejected} : OpSettle(o, r)
  \/ \E o \in 1..MaxOps : OpThen(o, FALSE)
  \/ \E o \in 1..MaxOps : OpFinally(o)
  \/ \E o \in 1..MaxOps : Deliver(o)

SpecCoalesce == Init /\ [][CoalesceNext]_vars

\* The coalescer under invalidation: the same steps, with the invalidations
\* recorded against the operations in flight.
InvalidationNext ==
  \/ \E k \in Keys : Invalidate(k, FALSE) /\ Tracked({k})
  \/ \E p \in {<<"a">>, <<"b">>} : InvalidatePrefix(p, FALSE) /\ Tracked(Covered(p))
  \/ ClearAll(FALSE) /\ Tracked(Keys)
  \/ \E k \in Keys : DeduplicatedFetch(k, CACHE_TTL_SHORT, TRUE)
  \/ \E o \in 1..MaxOps, r \in {"v1", Rejected} : OpSettle(o, r)
  \/ \E o \in 1..MaxOps : OpThen(o, FALSE)
  \/ \E o \in 1..MaxOps : OpFinally(o)
  \/ \E o \in 1..MaxOps : Deliver(o)

SpecInvalidation == Init /\ [][InvalidationNext]_vars

\* The coalescer with nothing that removes an entry: no invalidation and no
\* passing of time.  The fetcher resolves with a value, which may be null
\* (the data of a response whose body is the JSON text null), or rejects.
RefetchNext ==
  \/ \E k \in Keys : DeduplicatedFetch(k, CACHE_TTL_SHORT, TRUE)
  \/ \E k \in Keys : DeduplicatedFetch(k, CACHE_TTL_DEFAULT, FALSE)
  \/ \E o \in 1..MaxOps, r \in Data \cup {Rejected} : OpSettle(o, r)
  \/ \E o \in 1..MaxOps : OpThen(o, FALSE)
  \/ \E o \in 1..MaxOps : OpFinally(o)
  \/ \E o \in 1..MaxOps : Deliver(o)

SpecRefetch == Init /\ [][RefetchNext]_vars

\* The cache next to the session items of utils/api.ts.
SessionNext ==
  \/ \E k \in Keys, v \in Values, p \in BOOLEAN : Set(k, v, CACHE_TTL_SHORT, p, FALSE)
  \/ \E k \in Keys : Get(k, FALSE)
  \/ \E k \in Keys : Invalidate(k, FALSE) /\ Untracked
  \/ \E p \in Prefixes : InvalidatePrefix(p, FALSE) /\ Untracked
  \/ ClearAll(FALSE) /\ Untracked
  \/ \E t \in SessionItems : SaveToken(t)
  \/ \E t \in SessionItems : SaveApiSettings(t)
  \/ ClearToken

SpecSession == Init /\ [][SessionNext]_vars

\* ------------------------------------------------------------------------
\* Properties of the cache store (SpecStore).  They are stated of get, set and
\* invalidatePrefix applied in every reachable state of the two tiers.
\* ------------------------------------------------------------------------
\* C3: get never returns a value written with ttl > 0 once ttl or more time
\* has passed since the set() that wrote it.
C3_NoValuePastItsTtl ==
  \A k \in Keys, f \in BOOLEAN :
    LET r == get(memoryCache, storage, k, now, f) IN
    (r.res # Null /\ r.ent.wTtl > 0) => now - r.ent.wAt < r.ent.wTtl

\* C6: set(key, v, 0) followed immediately by get(key) returns absent,
\* whatever the two tiers held for the key.
C6_NeverCacheSentinel ==
  \A k \in Keys, v \in Data, p \in BOOLEAN :
    LET s == set(memoryCache, storage, k, v, CACHE_TTL_NONE, p, now, FALSE) IN
    get(s.mem, s.sto, k, now, FALSE).res = Null

HasPrefix(key, prefix) == \E n \in 0..Len(key) : SubSeq(key, 1, n) = prefix

\* C8: invalidatePrefix(p) removes from both tiers exactly the keys that
\* start with p: get returns absent for each of them afterwards, and every
\* other key keeps its entry in both tiers.
C8_PrefixInvalidation ==
  \A p \in Prefixes :
    LET r == invalidatePrefix(memoryCache, storage, p, FALSE) IN
    \A k \in Keys :
      IF HasPrefix(k, p)
        THEN /\ ~r.mem[k].present
             /\ ~r.sto[k].present
             /\ get(r.mem, r.sto, k, now, FALSE).res = Null
        ELSE /\ r.mem[k] = memoryCache[k]
             /\ r.sto[k] = storage[k]

\* Both tiers hold an entry for every key, and invalidatePrefix of a proper
\* prefix of one key removes that key from both tiers and keeps the other.
C8_Witness ==
  /\ \A k \in Keys : memoryCache[k].present /\ storage[k].present
  /\ LET r == invalidatePrefix(memoryCache, storage, <<"a">>, FALSE) IN
       /\ ~r.mem[<<"a", "x">>].present /\ ~r.sto[<<"a", "x">>].present
       /\ r.mem[<<"b">>].present /\ r.sto[<<"b">>].present

\* ------------------------------------------------------------------------
\* Properties of the request coalescer (SpecCoalesce)
\* ------------------------------------------------------------------------
OpIds == 1..Len(ops)
CallIds == 1..Len(calls)

\* C1: a deduplicatedFetch call that misses the cache while an operation of
\* its key is unsettled does not invoke its fetcher: it is given that
\* operation, and every caller of one operation receives the operation's
\* outcome, the same resolved value or the same rejection.
C1_Coalescing ==
  /\ \A c \in CallIds :
        calls[c].live # {} =>
          /\ calls[c].kind = "joined"
          /\ calls[c].op \in calls[c].live
  /\ \A c \in CallIds :
        calls[c].outcome # Pending =>
          calls[c].outcome = ops[calls[c].op].result
  /\ \A k \in Keys :
        Cardinality({c \in CallIds : calls[c].key = k /\ calls[c].kind = "started"})
          = Cardinality({o \in OpIds : ops[o].key = k})

\* Two callers of one operation, the second having joined while it was
\* unsettled, have both received its rejection.
C1_Witness ==
  \E c1, c2 \in CallIds :
    /\ c1 # c2
    /\ calls[c1].kind = "started" /\ calls[c2].kind = "joined"
    /\ calls[c1].op = calls[c2].op
    /\ calls[c2].live = {calls[c1].op}
    /\ calls[c1].outcome = Rejected /\ calls[c2].outcome = Rejected

\* The operations of key that have not run to the end of their promise chain.
Unfinished(key) == {o \in OpIds : ops[o].key = key /\ ops[o].state # "done"}

\* C2: for every key at most one operation started by deduplicatedFetch is
\* unsettled, and it is the one registered in the pending table.
C2_OnePendingPerKey ==
  \A k \in Keys :
    /\ Cardinality(Unfinished(k)) <= 1
    /\ Unfinished(k) # {} => inFlightRequests[k] \in Unfinished(k)

\* Every key has an unsettled operation of its own at the same time.
C2_Witness ==
  /\ \A k \in Keys : Cardinality(Unsettled(k)) = 1
  /\ \A k \in Keys : inFlightRequests[k] \in Unsettled(k)

\* C4: the steps that handle a failed operation write no cache entry in
\* either tier, and when a caller observes the failure the failed operation
\* is no longer the pending operation of its key (a call made then does not
\* join it).
C4_FailureNotCached ==
  [][ /\ \A o \in OpIds :
           (ops'[o].result = Rejected /\ ops'[o].state # ops[o].state) =>
             (memoryCache' = memoryCache /\ storage' = storage)
      /\ \A c \in CallIds :
           (calls[c].outcome = Pending /\ calls'[c].outcome = Rejected) =>
             getInFlight(inFlightRequests', calls[c].key) # calls[c].op ]_vars

\* A caller has observed the failure of the operation it started, and a later
\* call for the same key has started a new operation.
C4_Witness ==
  \E c1, c2 \in CallIds :
    /\ c1 < c2
    /\ calls[c1].key = calls[c2].key
    /\ calls[c1].kind = "started" /\ calls[c1].outcome = Rejected
    /\ calls[c2].kind = "started" /\ calls[c2].op # calls[c1].op
    /\ ~memoryCache[calls[c1].key].present /\ ~storage[calls[c1].key].present

\* C5: an operation is registered in the pending table until its promise
\* chain has run, and is not registered afterwards, whether it resolved or
\* rejected and whatever its ttl and persist flag; once every operation has
\* settled the pending table is empty.
C5_PendingRemoved ==
  /\ \A o \in OpIds :
        (ops[o].state = "done") <=> (inFlightRequests[ops[o].key] # o)
  /\ (\A o \in OpIds : ops[o].state = "done") => (\A k \in Keys : inFlightRequests[k] = 0)

\* Two operations have settled, one rejected and one resolved with ttl = 0
\* and persist = false, and the pending table is empty.
C5_Witness ==
  /\ \E o1, o2 \in OpIds :
        /\ ops[o1].state = "done" /\ ops[o1].result = Rejected
        /\ ops[o2].state = "done" /\ ops[o2].result \in Values
        /\ ops[o2].ttl = 0 /\ ~ops[o2].persist
  /\ \A o \in OpIds : ops[o].state = "done"
  /\ \A k \in Keys : inFlightRequests[k] = 0

\* ------------------------------------------------------------------------
\* Properties of the HTTP client (SpecClient)
\* ------------------------------------------------------------------------
AttemptIds == 1..Len(req.seen)

\* C9: with maxRetries = n, a finished request whose every attempt received
\* a status >= 500 has made exactly n + 1 calls of fetch and returns an http
\* error carrying the status of the last response.
C9_RetryBoundOnServerErrors ==
  (/\ req.pc = "done"
   /\ req.stable
   /\ \A i \in AttemptIds : req.seen[i].kind = "response" /\ req.seen[i].status >= 500)
  => /\ req.fetches = req.maxRetries + 1
     /\ Len(req.seen) = req.maxRetries + 1
     /\ req.result = createError("http", req.seen[Len(req.seen)].status)

\* With maxRetries = 2 the request has ended after three server errors, the
\* last with another status than the ones before.
C9_Witness ==
  /\ req.pc = "done" /\ req.stable /\ req.maxRetries = 2
  /\ req.seen = <<Response(500), Response(500), Response(503)>>
  /\ req.fetches = 3
  /\ req.result = createError("http", 503)

\* C10: an attempt that receives 401 is the last attempt of its request, on
\* whichever attempt it comes and whatever maxRetries is: the unauthorized
\* callback has been invoked exactly once and the request has returned an
\* http error with status 401.
C10_UnauthorizedShortCircuit ==
  \A i \in AttemptIds :
    req.seen[i] = Response(401) =>
      /\ i = Len(req.seen)
      /\ req.fetches = i
      /\ req.pc = "done"
      /\ req.unauthorized = 1
      /\ req.result = createError("http", 401)

\* A 401 has come on the retry that followed a server error, with retries
\* left.
C10_Witness ==
  /\ req.seen = <<Response(500), Response(401)>>
  /\ req.maxRetries = 2 /\ req.stable
  /\ req.pc = "done" /\ req.unauthorized = 1

\* ------------------------------------------------------------------------
\* Properties of the referential bootstrapper (SpecBoot)
\* ------------------------------------------------------------------------
AttemptNos == 1..Len(attempts)
BootCallNos == 1..Len(bootCalls)

\* What C11 asks of the calls: a call made while no bootstrap had completed
\* is attached to the one fan-out and resolves only after it has completed;
\* a call made after a completed bootstrap is answered at once.
CallsFollowTheirAttempt ==
  \A c \in BootCallNos :
    IF bootCalls[c].completed = {}
      THEN /\ bootCalls[c].att = 1
           /\ bootCalls[c].resolved => attempts[1].state = "done"
      ELSE bootCalls[c].path = "return"

Completes(a) ==
  /\ a \in AttemptNos
  /\ attempts[a].state = "fetching"
  /\ attempts'[a].state = "done"

\* C12: whichever of its fetches failed, an attempt ends with isLoaded() true,
\* the accessor of each failed list returning the empty list and the accessor
\* of each other list returning the fetched data; the promise of bootstrap()
\* is then resolved, never rejected.
C12_PartialFailure ==
  [][\A a \in 1..MaxAttempts :
       Completes(a) =>
         /\ isBootstrapped'
         /\ \A l \in Lists :
              getList(referentialStore', l) =
                IF attempts[a].results[l].st = "rejected" THEN << >> ELSE <<l>>]_vars

\* An attempt has ended with one list failed and the others fetched, and
\* another attempt with every list failed; their callers have resolved.
C12_Witness ==
  /\ Len(attempts) = 2
  /\ attempts[1].state = "done"
  /\ attempts[1].results["atas"].st = "rejected"
  /\ attempts[1].results["acTypes"].st = "ok"
  /\ attempts[2].state = "done"
  /\ \A l \in Lists : attempts[2].results[l].st = "rejected"
  /\ isBootstrapped
  /\ \A l \in Lists : getList(referentialStore, l) = << >>
  /\ \A c \in BootCallNos : bootCalls[c].resolved

\* C13: the results of an attempt started before reset() are never written:
\* what the snapshot holds, and the loaded flag, come from an attempt started
\* after the last reset().
C13_ResetDiscardsLateResults ==
  /\ \A l \in Lists :
       referentialStore[l].by # 0 => attempts[referentialStore[l].by].resets = resets
  /\ isBootstrapped =>
       \E a \in AttemptNos : attempts[a].state = "done" /\ attempts[a].resets = resets

\* C14: the snapshot read by the accessors is emptyStore or the lists of one
\* single attempt, all of them.
C14_SnapshotConsistent ==
  \/ referentialStore = emptyStore
  \/ \E a \in AttemptNos :
       /\ attempts[a].state = "done"
       /\ \A l \in Lists :
            referentialStore[l] = catchEmpty(a, attempts[a].results[l])

\* The snapshot of a second attempt has replaced the one of the first, with
\* a list the first had fetched and the second has not.
C14_Witness ==
  /\ Len(attempts) = 2
  /\ attempts[1].state = "done" /\ attempts[2].state = "done"
  /\ attempts[1].results["atas"].st = "ok"
  /\ attempts[2].results["atas"].st = "rejected"
  /\ referentialStore["acTypes"].by = 2
  /\ getList(referentialStore, "atas") = << >>

\* ------------------------------------------------------------------------
\* Further properties of the HTTP client (SpecClient)
\* ------------------------------------------------------------------------
LastSeen == req.seen[Len(req.seen)]

\* C15: a request that ends on an HTTP status error, a timeout, a connectivity
\* failure or an undecodable body does not throw or reject: it returns an
\* error Result of kind http, timeout, network or parse respectively.
C15_ExpectedFailuresAreResults ==
  req.pc = "done" =>
    /\ req.result # Rejection
    /\ (LastSeen.kind = "response" /\ ~responseOk(LastSeen.status))
         => req.result = createError("http", LastSeen.status)
    /\ LastSeen.kind = "abort" => req.result = createError("timeout", 0)
    /\ LastSeen.kind \in {"network", "loadFailed"} => req.result = createError("network", 0)
    /\ (LastSeen.kind = "response" /\ responseOk(LastSeen.status) /\ ~req.result.ok)
         => req.result = createError("parse", 0)

\* The number of 401 responses among the outcomes of the attempts.
Count401 == Cardinality({i \in AttemptIds : req.seen[i] = Response(401)})

C16_FetchFunctionsReturnResults ==
  (epCall.state = "returned" /\ ~req.result.ok /\ req.result.type \in {"http", "timeout", "network"})
    => epCall.outcome # Rejection

\* ------------------------------------------------------------------------
\* Properties of the cache namespace (SpecSession)
\* ------------------------------------------------------------------------
\* C18: in every state, clearAll() leaves both tiers without any cache entry
\* and, like invalidate(key) and invalidatePrefix(prefix) for every key and
\* prefix, leaves the stored token and the stored settings as they are.
C18_NamespaceIsolation ==
  /\ clearAll(memoryCache, storage, FALSE).mem = [k \in Keys |-> NoEntry]
  /\ clearAll(memoryCache, storage, FALSE).sto = [k \in Keys |-> NoEntry]
  /\ removeStartingWith(session, STORAGE_PREFIX) = session
  /\ \A k \in Keys : removeItem(session, storageKey(k)) = session
  /\ \A p \in Prefixes : removeStartingWith(session, STORAGE_PREFIX \o p) = session

\* The token and the settings are stored and the cache entries that were
\* written to both tiers have all been removed again.
C18_Witness ==
  /\ session[TOKEN_KEY] # Null /\ session[SETTINGS_KEY] # Null
  /\ nSet = MaxSets
  /\ \A k \in Keys : ~memoryCache[k].present /\ ~storage[k].present

\* ------------------------------------------------------------------------
\* Durable-tier failures (SpecStore)
\* ------------------------------------------------------------------------
\* C19: when the durable tier fails, each of get, set, invalidate,
\* invalidatePrefix and clearAll still returns normally: a failed read gives
\* what the fast tier alone gives (a miss unless the fast tier has a valid
\* entry), a failed write or removal leaves the durable tier as it was, and
\* the fast tier is read and written as when the durable tier works.
C19_DurableFailuresContained ==
  /\ \A k \in Keys :
       LET g == get(memoryCache, storage, k, now, TRUE)
           m == getFromMemory(memoryCache, k, now) IN
       g.res = m.res /\ g.mem = m.mem /\ g.sto = storage
  /\ \A k \in Keys, v \in Data, ttl \in Ttls, p \in BOOLEAN :
       LET bad == set(memoryCache, storage, k, v, ttl, p, now, TRUE)
           good == set(memoryCache, storage, k, v, ttl, p, now, FALSE) IN
       bad.mem = good.mem /\ bad.sto = storage
  /\ \A k \in Keys :
       LET bad == invalidate(memoryCache, storage, k, TRUE)
           good == invalidate(memoryCache, storage, k, FALSE) IN
       bad.mem = good.mem /\ bad.sto = storage
  /\ \A p \in Prefixes :
       LET bad == invalidatePrefix(memoryCache, storage, p, TRUE)
           good == invalidatePrefix(memoryCache, storage, p, FALSE) IN
       bad.mem = good.mem /\ bad.sto = storage
  /\ clearAll(memoryCache, storage, TRUE).mem = clearAll(memoryCache, storage, FALSE).mem
  /\ clearAll(memoryCache, storage, TRUE).sto = storage

\* After a reload the durable tier alone holds a valid entry of a key: a read
\* that works returns it and a read that fails is a miss; and a write of
\* another key was dropped by the durable tier and is served by the fast tier.
C19_Witness ==
  \E k, j \in Keys :
    /\ ~memoryCache[k].present /\ storage[k].present
    /\ get(memoryCache, storage, k, now, FALSE).res # Null
    /\ get(memoryCache, storage, k, now, TRUE).res = Null
    /\ memoryCache[j].present /\ ~storage[j].present
    /\ get(memoryCache, storage, j, now, TRUE).res = memoryCache[j].data

\* ------------------------------------------------------------------------
\* Properties of makeCacheKey (SpecKey)
\* ------------------------------------------------------------------------
\* The two objects hold the same name/value pairs.
SamePairs(p, q) == p.defined /\ q.defined /\ Range(p.props) = Range(q.props)

\* C20: the key returned for a params object is the key of every params
\* object that holds the same name/value pairs in any insertion order, and
\* the key of a call without params or with an empty object is the endpoint.
C20_KeyIgnoresInsertionOrder ==
  keyCall.state = "returned" =>
    /\ \A q \in ParamObjects :
         SamePairs(keyCall.params, q) => makeCacheKey(keyCall.endpoint, q) = keyCall.key
    /\ (~keyCall.params.defined \/ keyCall.params.props = << >>)
         => keyCall.key = keyCall.endpoint

\* A key was made from an object whose properties were inserted in descending
\* order of their names; it lists them in ascending order.
C20_Witness ==
  /\ keyCall.state = "returned"
  /\ Len(keyCall.params.props) = 2
  /\ keyCall.params.props[1].name = <<"b">>
  /\ keyCall.params.props[2].name = <<"a", "b">>
  /\ keyCall.key = keyCall.endpoint \o <<"?", "a", "b", "=">> \o keyCall.params.props[2].value.text
                     \o <<"&", "b", "=">> \o keyCall.params.props[1].value.text

\* ------------------------------------------------------------------------
\* C21: waitFor() resolves without waiting when the referentials are already
\* loaded or when no attempt is running; when an attempt is running and
\* reset() has not been called, it resolves only after that attempt has
\* completed, and isLoaded() is true at that point.
\* ------------------------------------------------------------------------
C21_WaitForBootstrap ==
  LET c == waitCall IN
    c.path # "none" =>
      /\ (c.loadedAtCall \/ c.running = {}) => c.path = "return"
      /\ (~c.loadedAtCall /\ c.running # {} /\ c.resolved /\ c.resets = 0) =>
           /\ \A a \in c.running : attempts[a].state = "done"
           /\ c.loaded

C21_Witness ==
  LET c == waitCall IN
    /\ ~c.loadedAtCall /\ c.running # {} /\ c.resolved /\ c.resets = 0
    /\ c.path = "await"
    /\ \E l \in Lists : getList(referentialStore, l) = << >>

\* ------------------------------------------------------------------------
\* C22: loadWpDashboard resolves, for every combination of failing and
\* succeeding sub-requests, with the data of every sub-request that
\* succeeded and with exactly one entry of errors per sub-request that
\* failed, and with no entry of an earlier call.
\* ------------------------------------------------------------------------
Entries(s) == Cardinality({i \in 1..Len(dash.result.errors) : dash.result.errors[i] = s})

Delivered(s) ==
  \/ s \in dash.result.data
  \/ s \in {"aircraft", "wpDetail"} /\ dash.sub[s] = "empty"

C22_DashboardCollectsAll ==
  dash.pc = "done" =>
    /\ \A s \in SubRequests :
         /\ dash.sub[s] \in OkPayloads => Delivered(s)
         /\ Entries(s) = IF dash.sub[s] = "failed" THEN 1 ELSE 0
    /\ Len(dash.result.errors) = Cardinality({s \in SubRequests : dash.sub[s] = "failed"})

\* ------------------------------------------------------------------------
\* C23: every call of get/post/put/del eventually returns a Result: every
\* attempt, the reading of the response body included, completes or is
\* cancelled by the timeout, and at most maxRetries retries follow.
\* ------------------------------------------------------------------------
C23_EveryCallReturns == (req.pc \in {"fetching", "body", "sleeping"}) ~> (req.pc = "done")

\* ------------------------------------------------------------------------
\* C24: an operation that was in flight when its key was invalidated (by
\* invalidate, invalidatePrefix or clearAll) never repopulates the cache:
\* its then-callback leaves both tiers of the key as the invalidation and
\* the later writes have left them.
\* ------------------------------------------------------------------------
C24_NoStaleRepopulation ==
  [][\A o \in OpIds :
       (o \in invalidatedOps /\ ops[o].state = "settled" /\ ops'[o].state = "resolved") =>
         /\ memoryCache'[ops[o].key] = memoryCache[ops[o].key]
         /\ storage'[ops[o].key] = storage[ops[o].key]]_vars

\* ------------------------------------------------------------------------
\* C25: after set(key, v2, ttl, persist), for any ttl and persist flag, no
\* later get(key) returns a value written by an earlier set, also after v2
\* has expired: what get returns is the entry that this set wrote, or absent.
\* ------------------------------------------------------------------------
Later == {0, CACHE_TTL_SHORT, CACHE_TTL_DEFAULT}

C25_NoReplacedValue ==
  \A k \in Keys, v2 \in Values, ttl \in Ttls, p \in BOOLEAN, d \in Later :
    LET s == set(memoryCache, storage, k, v2, ttl, p, now, FALSE)
        r == get(s.mem, s.sto, k, now + d, FALSE) IN
    r.res # Null => (r.res = v2 /\ r.ent.wAt = now /\ r.ent.wTtl = ttl)

\* ------------------------------------------------------------------------
\* C26: when get(key) finds no valid fast-tier entry and an unexpired durable
\* entry, it returns the durable value and copies it into the fast tier with
\* the entry's own TTL, so that the copy expires when the durable entry does.
\* ------------------------------------------------------------------------
C26_PromotionKeepsExpiry ==
  \A k \in Keys :
    LET m == getFromMemory(memoryCache, k, now)
        s == getFromStorage(storage, k, now, FALSE)
        g == get(memoryCache, storage, k, now, FALSE) IN
    (m.res = Null /\ s.res # Null) =>
      /\ g.res = s.res
      /\ g.mem[k].present /\ g.mem[k].data = s.res
      /\ g.mem[k].ttl = storage[k].ttl
      /\ g.mem[k].timestamp + g.mem[k].ttl = storage[k].timestamp + storage[k].ttl

\* ------------------------------------------------------------------------
\* C27: under every interleaving of bootstrap() and reset() at most one
\* attempt is running, a bootstrap() made while the fetches of an earlier
\* attempt are in flight starts no second fan-out, and bootstrapPromise is
\* non-null exactly while an attempt is running.
\* ------------------------------------------------------------------------
C27_OneAttemptRunning ==
  /\ Cardinality(Running) <= 1
  /\ bootstrapPromise # 0 <=> Running # {}

\* ------------------------------------------------------------------------
\* C28: when a typed fetch function fails because the client returned an
\* error Result, the error it returns has the client's kind (network,
\* timeout, http or parse) and, for http, the status of the response.
\* ------------------------------------------------------------------------
C28_TypedErrorKeepsKind ==
  (/\ epCall.state = "returned" /\ epCall.fn = "fetchTyped"
   /\ ~req.result.ok /\ req.result.type \in {"network", "timeout", "http", "parse"})
    => /\ epCall.outcome.type = req.result.type
       /\ req.result.type = "http" => epCall.outcome.status = req.result.status

\* ------------------------------------------------------------------------
\* C29: for every sequence of attempt outcomes, of whatever kinds, a request
\* makes at most maxRetries + 1 calls of fetch: every retry, whatever failure
\* caused it, is counted against the one budget.
\* ------------------------------------------------------------------------
C29_SharedRetryBudget ==
  req.stable =>
    /\ req.fetches <= req.maxRetries + 1
    /\ Len(req.delays) <= req.maxRetries
    /\ req.pc # "idle" => req.fetches = req.attempt + 1

\* With maxRetries = 2 the request has ended after a server error, a timeout
\* and a connectivity failure, in three attempts.
C29_Witness ==
  /\ req.pc = "done" /\ req.stable /\ req.maxRetries = 2
  /\ req.seen = <<Response(503), Thrown("abort"), Thrown("network")>>
  /\ req.fetches = 3
  /\ req.result = createError("network", 0)

\* ------------------------------------------------------------------------
\* C30: a request whose every attempt times out makes exactly maxRetries + 1
\* attempts, waits retryDelay, the same each time, between two consecutive
\* attempts, and returns an error Result of kind timeout.
\* ------------------------------------------------------------------------
C30_TimeoutsRetryFlat ==
  (/\ req.pc = "done"
   /\ req.stable
   /\ \A i \in AttemptIds : req.seen[i].kind = "abort")
  => /\ req.fetches = req.maxRetries + 1
     /\ Len(req.delays) = req.maxRetries
     /\ \A i \in 1..Len(req.delays) : req.delays[i] = config.retryDelay
     /\ req.result = createError("timeout", 0)

C30_Witness ==
  /\ req.pc = "done" /\ req.stable /\ req.maxRetries = 2
  /\ req.seen = <<Thrown("abort"), Thrown("abort"), Thrown("abort")>>
  /\ req.delays = <<DEFAULT_RETRY_DELAY, DEFAULT_RETRY_DELAY>>
  /\ req.result = createError("timeout", 0)

\* ------------------------------------------------------------------------
\* C31: a request whose every attempt ends in a connectivity failure is
\* retried maxRetries times, with waits growing linearly, and returns an
\* error Result of kind network.
\* ------------------------------------------------------------------------
ConnectivityFailures == {"network", "loadFailed"}

C31_ConnectivityFailuresRetried ==
  (/\ req.pc = "done"
   /\ req.stable
   /\ \A i \in AttemptIds : req.seen[i].kind \in ConnectivityFailures)
  => /\ req.fetches = req.maxRetries + 1
     /\ \A i \in 1..Len(req.delays) : req.delays[i] = config.retryDelay * i
     /\ req.result = createError("network", 0)

\* ------------------------------------------------------------------------
\* C32: the wait before the retry that follows attempt number a, counted
\* from 0, is retryDelay * (a + 1) when that attempt ended in a server error
\* or a connectivity failure that is retried, whatever the earlier attempts
\* ended in.  (The i-th wait follows attempt number i - 1.)
\* ------------------------------------------------------------------------
C32_LinearBackoff ==
  \A i \in 1..Len(req.delays) :
    (\/ req.seen[i].kind = "response" /\ isServerError(req.seen[i].status)
     \/ req.seen[i].kind = "network")
      => req.delays[i] = config.retryDelay * i

\* The second wait follows a server error that came after a timeout: the
\* first wait was the flat one, the second is twice retryDelay.
C32_Witness ==
  /\ Len(req.delays) = 2
  /\ req.seen[1] = Thrown("abort") /\ req.seen[2] = Response(503)
  /\ req.delays = <<DEFAULT_RETRY_DELAY, 2 * DEFAULT_RETRY_DELAY>>

\* ------------------------------------------------------------------------
\* C33: a response with a 4xx status other than 401 is the last of its
\* request, on whichever attempt it arrives: no retry follows, the
\* unauthorized callback is not invoked, and the request returns an http
\* error carrying that status.
\* ------------------------------------------------------------------------
OtherClientError(status) == status >= 400 /\ status <= 499 /\ status # 401

C33_ClientErrorsEndTheRequest ==
  \A i \in AttemptIds :
    (req.seen[i].kind = "response" /\ OtherClientError(req.seen[i].status)) =>
      /\ i = Len(req.seen)
      /\ req.fetches = i
      /\ Len(req.delays) = i - 1
      /\ req.pc \in {"body", "done"}
      /\ req.unauthorized = 0
      /\ req.pc = "done" => req.result = createError("http", req.seen[i].status)

\* A 404 has arrived on the third attempt, after two retried failures.
C33_Witness ==
  /\ req.pc = "done" /\ Len(req.seen) = 3
  /\ req.seen[3] = Response(404)
  /\ req.result = createError("http", 404)
  /\ req.unauthorized = 0

\* ------------------------------------------------------------------------
\* C34: once an operation for a key has succeeded with ttl > 0, and as long
\* as the ttl has not elapsed and the key has not been invalidated, no
\* further deduplicatedFetch for the key invokes its operation, whatever
\* value the operation produced: a second operation for a key exists only
\* if every earlier one failed.
\* ------------------------------------------------------------------------
C34_HitAfterSuccess ==
  \A o1 \in OpIds, o2 \in OpIds :
    (o1 < o2 /\ ops[o1].key = ops[o2].key) => ops[o1].result = Rejected

\* ------------------------------------------------------------------------
\* C35: the durable tier never holds an entry with ttl = 0 written through
\* set: set(key, v, 0, persist) writes the fast tier only, for either value
\* of persist, and set with persist = false writes nothing durable.
\* ------------------------------------------------------------------------
C35_ZeroTtlNeverPersisted ==
  /\ \A k \in Keys : storage[k].present => storage[k].ttl > 0
  /\ \A k \in Keys, v \in Data, p \in BOOLEAN, f \in BOOLEAN :
       LET s == set(memoryCache, storage, k, v, CACHE_TTL_NONE, p, now, f) IN
       /\ s.sto = storage
       /\ s.mem[k].present /\ s.mem[k].data = v /\ s.mem[k].ttl = CACHE_TTL_NONE
  /\ \A k \in Keys, v \in Data, ttl \in Ttls, f \in BOOLEAN :
       set(memoryCache, storage, k, v, ttl, FALSE, now, f).sto = storage

\* A set with ttl = 0 has just written the fast tier of a key whose durable
\* entry, written by an earlier set, holds another value.
C35_Witness ==
  \E k \in Keys :
    /\ memoryCache[k].present /\ memoryCache[k].ttl = CACHE_TTL_NONE
    /\ memoryCache[k].timestamp = now /\ nSet = 2
    /\ storage[k].present /\ storage[k].ttl > 0
    /\ storage[k].data # memoryCache[k].data

\* ------------------------------------------------------------------------
\* C36: in loadWpDashboard, with a registration and no aircraft id, none of
\* the three parallel requests is issued before the aircraft lookup has
\* settled, and none at all if it gives no aircraft; the location-dependent
\* requests are issued only after the three parallel ones have all settled;
\* and the call returns only after every request it issued has settled.
\* ------------------------------------------------------------------------
Issued(s) == dash.sub[s] # "none"

C36_DashboardOrdering ==
  /\ dash.sub["aircraft"] = "pending" => \A s \in SubRequests \ {"aircraft"} : ~Issued(s)
  /\ (dash.sub["aircraft"] \in Payloads \ {"list"}) => \A s \in SubRequests \ {"aircraft"} : ~Issued(s)
  /\ (\E s \in locationRequests(dash.params) : Issued(s)) =>
       \A s \in Parallel : dash.sub[s] \in Payloads
  /\ dash.pc = "done" => \A s \in SubRequests : dash.sub[s] # "pending"

\* A call with a registration, no id and both locations has returned after
\* all seven requests.
C36_Witness ==
  /\ dash.pc = "done"
  /\ dash.params.acReg /\ ~dash.params.acId
  /\ \A s \in SubRequests : dash.sub[s] \in Payloads
  /\ dash.sub["reqList"] = "failed"

\* ------------------------------------------------------------------------
\* C37: after invalidateWpCache(wpId), a loadWpDashboard for that work
\* package is served no sub-result (detail, work orders, RFQ, REQ, POIN,
\* customer quotes) from an entry cached before the call: none of the keys
\* it reads has an entry left.
\* ------------------------------------------------------------------------
C37_InvalidateWpCoversDashboard ==
  \A wp \in WpIds, s \in WpSubs : subKey(s, wp) \notin invalidateWpCache(wpCache, wp)

\* ------------------------------------------------------------------------
\* C38: invalidateWpCache(wpId) leaves the cached work-order list of every
\* other work package as it is.
\* ------------------------------------------------------------------------
C38_OtherWorkOrdersKept ==
  \A wp \in WpIds : \A wp2 \in WpIds \ {wp} :
    subKey("workOrders", wp2) \in wpCache =>
      subKey("workOrders", wp2) \in invalidateWpCache(wpCache, wp)

\* ------------------------------------------------------------------------
\* C39: after resetApi() (localStorage working) nothing of the previous
\* session remains: the cache is empty in both tiers, isReferentialsLoaded()
\* is false and every referential accessor returns an empty list.
\* ------------------------------------------------------------------------
NoSessionState ==
  /\ \A k \in Keys : ~memoryCache[k].present /\ ~storage[k].present
  /\ ~isBootstrapped
  /\ \A l \in Lists : getList(referentialStore, l) = << >>

C39_ResetLeavesNothing == [][ResetApi(FALSE) => NoSessionState']_vars

\* ------------------------------------------------------------------------
\* The promises of operation o: "chain" is `promise` of line 254
\* (fetcher().then(...)), "finally" is the promise that promise.finally(...)
\* returns at line 226.
\* ------------------------------------------------------------------------
OpPromises == {"chain", "finally"}

\* A promise of operation o is pending, fulfilled or rejected.  The chain is
\* settled once the then-callback is past; the promise of finally() settles
\* like the chain, after the finally-callback has run.
promiseState(o, p) ==
  LET settled == IF p = "chain" THEN ops[o].state \in {"resolved", "done"}
                 ELSE ops[o].state = "done" IN
  IF ~settled THEN "pending"
  ELSE IF ops[o].result = Rejected THEN "rejected"
  ELSE "fulfilled"

\* What reacts to a promise of operation o.  The chain has the
\* finally-callback and the callers that were handed the promise (lines 249
\* and 260), each handling its own result; the value of promise.finally(...)
\* is dropped at line 226, so nothing is ever attached to it.
handlers(o, p) ==
  IF p = "chain"
    THEN {<<"finally", 0>>} \cup {<<"caller", c>> : c \in {d \in 1..Len(calls) : calls[d].op = o}}
    ELSE {}

UnhandledRejections ==
  {x \in (1..Len(ops)) \X OpPromises :
     promiseState(x[1], x[2]) = "rejected" /\ handlers(x[1], x[2]) = {}}

\* ------------------------------------------------------------------------
\* C40: when a coalesced operation fails and each caller that started or
\* joined it handles its own result, no rejected promise is left without a
\* handler.
\* ------------------------------------------------------------------------
C40_NoUnhandledRejection == UnhandledRejections = {}

====
